---- MODULE Spec2Model ----
(***************************************************************************)
(* TravelAI (src/app.py): the itinerary-to-calendar converter              *)
(* generate_ics_content, the planner call run_mcp_travel_planner and the   *)
(* Streamlit script that stores, renders and exports the itinerary.        *)
(*                                                                         *)
(* Texts are sequences of one-character strings.  Dates are proleptic      *)
(* Gregorian ordinals (date.toordinal()); a datetime is a record of an     *)
(* ordinal and the seconds since midnight.  The serialisation to_ical()    *)
(* and the dtstamp clock reading are not part of the state: the calendar   *)
(* is kept as the sequence of events added to it.                          *)
(***************************************************************************)
EXTENDS Integers, Sequences, FiniteSets, TLC

VARIABLES
  plan_text,      \* argument plan_text of the last generate_ics_content call
  start_date,     \* argument start_date of that call
  ics,            \* its outcome: the events of the calendar, or a raise
  itinerary,      \* st.session_state.itinerary
  ui_date,        \* the date picked in st.date_input("Start Date")
  rendered,       \* what st.markdown shows under "Your Itinerary"
  pc,             \* position of the script run / of run_mcp_travel_planner
  ret,            \* value of the return statement that was executed
  exitPath,       \* which return statement that was
  connectState,   \* await mcp_tools.connect(): none, pending, ended
  agentState,     \* await travel_planner.arun(prompt): none, pending, ended
  agentCalls,     \* calls of arun made by the current planner call
  closeAttempts,  \* calls of mcp_tools.close() made by the current call
  closeWarned,    \* st.warning("Failed to close MCP tools") was shown
  uiException,    \* the planner call raised into the script
  lastCall        \* the most recent planner call started by the script

icsVars == <<plan_text, start_date, ics>>

callVars ==
  <<pc, ret, exitPath, connectState, agentState, agentCalls, closeAttempts,
    closeWarned, uiException, lastCall>>

uiVars == <<itinerary, ui_date, rendered>>

vars == <<icsVars, uiVars, callVars>>

----------------------------------------------------------------------------
(* Bounds of the model. *)

\* an input text is the concatenation of at most MaxFrags fragments
MaxFrags == 4

----------------------------------------------------------------------------
(* Character classes of the regular expression and of str.strip(). *)

IsDigit(c) == c \in {"0", "1", "2", "3", "4", "5", "6", "7", "8", "9"}

IsSpace(c) == c \in {" ", "\n", "\t", "\r"}

\* the class [:\s]
IsSep(c) == c = ":" \/ IsSpace(c)

DigitVal(c) ==
  CASE c = "0" -> 0 [] c = "1" -> 1 [] c = "2" -> 2 [] c = "3" -> 3
    [] c = "4" -> 4 [] c = "5" -> 5 [] c = "6" -> 6 [] c = "7" -> 7
    [] c = "8" -> 8 [] c = "9" -> 9

DigitChar(d) ==
  CASE d = 0 -> "0" [] d = 1 -> "1" [] d = 2 -> "2" [] d = 3 -> "3"
    [] d = 4 -> "4" [] d = 5 -> "5" [] d = 6 -> "6" [] d = 7 -> "7"
    [] d = 8 -> "8" [] d = 9 -> "9"

\* the literal "Day " that opens the pattern and its lookahead
DayLit == <<"D", "a", "y", " ">>

StartsWith(s, p, w) ==
  /\ p >= 1
  /\ p + Len(w) - 1 <= Len(s)
  /\ SubSeq(s, p, p + Len(w) - 1) = w

\* first position q >= p with s[q] not a digit: the end of a greedy \d+
RECURSIVE DigitsEnd(_, _)
DigitsEnd(s, p) ==
  IF p <= Len(s) /\ IsDigit(s[p]) THEN DigitsEnd(s, p + 1) ELSE p

\* first position q >= p with s[q] not in [:\s]: the end of a greedy [:\s]+
RECURSIVE SepEnd(_, _)
SepEnd(s, p) ==
  IF p <= Len(s) /\ IsSep(s[p]) THEN SepEnd(s, p + 1) ELSE p

\* $ without re.MULTILINE: the end of the text, or just before a final newline
AtDollar(s, q) ==
  \/ q = Len(s) + 1
  \/ q = Len(s) /\ s[q] = "\n"

\* the lookahead (?=Day \d+|$)
Lookahead(s, q) ==
  \/ StartsWith(s, q, DayLit) /\ q + 4 <= Len(s) /\ IsDigit(s[q + 4])
  \/ AtDollar(s, q)

\* the lazy (.*?) under re.DOTALL: the first position >= q where the
\* lookahead holds (every character, newline included, may be consumed)
RECURSIVE LazyEnd(_, _)
LazyEnd(s, q) ==
  IF Lookahead(s, q) \/ q > Len(s) THEN q ELSE LazyEnd(s, q + 1)

NoMatch == [ok |-> FALSE, num |-> <<>>, from |-> 0, to |-> 0, end |-> 0]

\* one attempt of day_pattern at position p.  Giving back a digit of \d+
\* leaves a digit before [:\s]+, and (.*?) always reaches $, so the greedy
\* extents are the only ones the backtracking matcher can accept.
MatchAt(s, p) ==
  IF ~StartsWith(s, p, DayLit) THEN NoMatch
  ELSE LET d == DigitsEnd(s, p + 4)
           m == SepEnd(s, d)
           e == LazyEnd(s, m)
       IN IF d = p + 4 \/ m = d THEN NoMatch
          ELSE [ok |-> TRUE, num |-> SubSeq(s, p + 4, d - 1),
                from |-> m, to |-> e - 1, end |-> e]

\* day_pattern.findall(plan_text): the non-overlapping matches, left to
\* right, the scan resuming where the previous match ended
RECURSIVE FindAllFrom(_, _)
FindAllFrom(s, p) ==
  IF p > Len(s) + 1 THEN <<>>
  ELSE LET m == MatchAt(s, p)
       IN IF m.ok
          THEN <<m>> \o FindAllFrom(s, IF m.end > p THEN m.end ELSE p + 1)
          ELSE FindAllFrom(s, p + 1)

FindAll(s) == FindAllFrom(s, 1)

Days_WithPreamble(s) ==
  LET ms == FindAll(s)
  IN [i \in 1..Len(ms) |->
        [day_num |-> ms[i].num,
         day_content |->
           SubSeq(s, IF i = 1 THEN 1 ELSE ms[i - 1].end, ms[i].to)]]

\* the (day_num, day_content) string pairs findall returns
Days(s) ==
  LET ms == FindAll(s)
  IN [i \in 1..Len(ms) |->
        [day_num |-> ms[i].num, day_content |-> SubSeq(s, ms[i].from, ms[i].to)]]

\* str.strip()
RECURSIVE LStrip(_)
LStrip(s) == IF s # <<>> /\ IsSpace(Head(s)) THEN LStrip(Tail(s)) ELSE s

RECURSIVE RStrip(_)
RStrip(s) ==
  IF s # <<>> /\ IsSpace(s[Len(s)]) THEN RStrip(SubSeq(s, 1, Len(s) - 1)) ELSE s

Strip(s) == RStrip(LStrip(s))

\* int(day_num) on a non-empty string of digits
RECURSIVE IntOf(_)
IntOf(ds) ==
  IF ds = <<>> THEN 0
  ELSE 10 * IntOf(SubSeq(ds, 1, Len(ds) - 1)) + DigitVal(ds[Len(ds)])

\* the decimal text of a natural number, as the f-string formats day_num
RECURSIVE IntToStr(_)
IntToStr(n) ==
  IF n < 10 THEN <<DigitChar(n)>>
  ELSE IntToStr(n \div 10) \o <<DigitChar(n % 10)>>

----------------------------------------------------------------------------
(* datetime arithmetic *)

\* date.min.toordinal() and date.max.toordinal()
MinOrdinal == 1
MaxOrdinal == 3652059

\* the largest magnitude of timedelta(days=...)
MaxDeltaDays == 999999999

\* datetime.today() at the call, read when start_date is None
Today == [day |-> 739926, sec |-> 34200]

NoDate == [day |-> 0, sec |-> 0]

\* start_date + timedelta(days=n): an OverflowError outside the range
DateInRange(dt, n) ==
  /\ n <= MaxDeltaDays /\ -n <= MaxDeltaDays
  /\ dt.day + n >= MinOrdinal
  /\ dt.day + n <= MaxOrdinal

PlusDays(dt, n) == [day |-> dt.day + n, sec |-> dt.sec]

\* datetime.date()
DateOf(dt) == dt.day

----------------------------------------------------------------------------
(* generate_ics_content *)

TravelItinerary ==
  <<"T", "r", "a", "v", "e", "l", " ", "I", "t", "i", "n", "e", "r", "a", "r", "y">>

ItinerarySuffix == <<" ", "I", "t", "i", "n", "e", "r", "a", "r", "y">>

\* f"Day {day_num} Itinerary"
DaySummary(n) == DayLit \o IntToStr(n) \o ItinerarySuffix

FallbackEvent_Trimmed(text, sd) ==
  [summary |-> TravelItinerary, description |-> Strip(text),
   dtstart |-> DateOf(sd), dtend |-> DateOf(sd)]

\* the single event of the branch `if not days`
FallbackEvent(text, sd) ==
  [summary |-> TravelItinerary, description |-> text,
   dtstart |-> DateOf(sd), dtend |-> DateOf(sd)]

\* one pass of the loop body for the pair d
DayEvent(d, sd) ==
  LET n == IntOf(d.day_num)
      current_date == PlusDays(sd, n - 1)
  IN [summary |-> DaySummary(n), description |-> Strip(d.day_content),
      dtstart |-> DateOf(current_date), dtend |-> DateOf(current_date)]

\* the loop `for day_num, day_content in days`, stopped by the first
\* OverflowError of line 38
RECURSIVE DayLoop(_, _, _, _)
DayLoop(days, i, sd, cal) ==
  IF i > Len(days) THEN [status |-> "ok", events |-> cal]
  ELSE IF ~DateInRange(sd, IntOf(days[i].day_num) - 1)
       THEN [status |-> "raised", events |-> <<>>]
       ELSE DayLoop(days, i + 1, sd, Append(cal, DayEvent(days[i], sd)))

\* generate_ics_content(plan_text, start_date); None is passed as NoDate
GenerateIcs(text, sdArg) ==
  LET sd == IF sdArg = NoDate THEN Today ELSE sdArg
      days == Days(text)
  IN IF days = <<>>
     THEN [status |-> "ok", events |-> <<FallbackEvent(text, sd)>>]
     ELSE DayLoop(days, 1, sd, <<>>)

NotCalled == [status |-> "none", events |-> <<>>]

----------------------------------------------------------------------------
(* Inputs of the converter. *)

Fragments ==
  { <<"D", "a", "y", " ", "1", ":">>,
    <<"D", "a", "y", " ", "2", " ">>,
    <<"D", "a", "y", " ", "0", ":">>,
    <<"D", "a", "y", " ", "2">>,
    <<"D", "a", "y", ":">>,
    <<"D", "a", "y", " ", "-", "1", ":">>,
    <<"D", "a", "y", " ", "9", "9", "9", "9", "9", "9", "9", ":">>,
    <<"x">>,
    <<" ">>,
    <<"\n">> }

RECURSIVE TextsOf(_)
TextsOf(k) ==
  IF k = 0 THEN {<<>>}
  ELSE LET shorter == TextsOf(k - 1)
       IN shorter \cup {t \o f : t \in shorter, f \in Fragments}

Texts == TextsOf(MaxFrags)

StartDates ==
  { NoDate,
    [day |-> MinOrdinal, sec |-> 0],
    [day |-> 739038, sec |-> 0],
    [day |-> 739038, sec |-> 64800],
    [day |-> MaxOrdinal, sec |-> 0] }

----------------------------------------------------------------------------
(* Values of the planner call and of the session. *)

None == [isNone |-> TRUE, text |-> <<>>]

Str(t) == [isNone |-> FALSE, text |-> t]

\* Python truth of a str-or-None value
Truthy(v) == ~v.isNone /\ v.text # <<>>

\* f"cross-mark Error running planner: {e}"
ErrorString(e) ==
  Str(<<"cross_mark", " ", "E", "r", "r", "o", "r", " ", "r", "u", "n", "n",
        "i", "n", "g", " ", "p", "l", "a", "n", "n", "e", "r", ":", " ">> \o e)

\* "warning-sign No response from planner."
NoResponse ==
  Str(<<"warning_sign", " ", "N", "o", " ", "r", "e", "s", "p", "o", "n", "s",
        "e", " ", "f", "r", "o", "m", " ", "p", "l", "a", "n", "n", "e", "r",
        ".">>)

\* messages of the exceptions the external calls raise
Errors ==
  { <<"t", "i", "m", "e", "o", "u", "t">>,
    <<"r", "e", "f", "u", "s", "e", "d">> }

\* response.content of an answered agent call
Contents ==
  { None,
    Str(<<>>),
    Str(<<"r", "e", "l", "a", "x">>),
    Str(<<"D", "a", "y", " ", "1", ":", " ", "a", "\n",
          "D", "a", "y", " ", "2", ":", " ", "b">>),
    Str(<<"D", "a", "y", " ", "9", "9", "9", "9", "9", "9", "9", ":", " ", "z">>) }

\* st.date_input("Start Date", min_value=date.today())
UiDates == {Today.day, Today.day + 30}

\* datetime.combine(start_date, datetime.min.time())
Combine(d) == [day |-> d, sec |-> 0]

NoCall == [started |-> FALSE, returned |-> FALSE, value |-> None]

\* the session before the first script run, API keys entered
ScriptStart ==
  /\ itinerary = None
  /\ ui_date = Today.day
  /\ rendered = None
  /\ pc = "idle"
  /\ ret = None
  /\ exitPath = "none"
  /\ connectState = "none"
  /\ agentState = "none"
  /\ agentCalls = 0
  /\ closeAttempts = 0
  /\ closeWarned = FALSE
  /\ uiException = FALSE
  /\ lastCall = NoCall

Init ==
  /\ plan_text = <<>>
  /\ start_date = NoDate
  /\ ics = NotCalled
  /\ ScriptStart

----------------------------------------------------------------------------
(* The Streamlit script run. *)

\* the button "Generate Itinerary" is clicked: the blank check of line 169,
\* then the call run_travel_planner(...) of line 173
Generate(originBlank, destinationBlank) ==
  /\ pc = "idle"
  /\ uiException' = FALSE
  /\ IF originBlank \/ destinationBlank
     THEN /\ pc' = "col2"
          /\ UNCHANGED <<ret, exitPath, connectState, agentState, agentCalls,
                         closeAttempts, closeWarned, lastCall>>
     ELSE /\ pc' = "create"
          /\ ret' = None
          /\ exitPath' = "none"
          /\ connectState' = "none"
          /\ agentState' = "none"
          /\ agentCalls' = 0
          /\ closeAttempts' = 0
          /\ closeWarned' = FALSE
          /\ lastCall' = [started |-> TRUE, returned |-> FALSE, value |-> None]
  /\ UNCHANGED <<icsVars, uiVars>>

\* another widget changes (here the start date): a script run without a click
ChangeStartDate(d) ==
  /\ pc = "idle"
  /\ d # ui_date
  /\ ui_date' = d
  /\ uiException' = FALSE
  /\ pc' = "col2"
  /\ UNCHANGED <<icsVars, itinerary, rendered, ret, exitPath, connectState,
                 agentState, agentCalls, closeAttempts, closeWarned, lastCall>>

\* mcp_tools = MultiMCPTools(...), lines 57-64, before the try statement:
\* an exception raised here leaves run_mcp_travel_planner and asyncio.run
\* and ends the script run at line 173, before the assignment
Create(raises) ==
  /\ pc = "create"
  /\ IF raises
     THEN /\ uiException' = TRUE
          /\ pc' = "idle"
     ELSE /\ pc' = "connect"
          /\ UNCHANGED uiException
  /\ UNCHANGED <<icsVars, uiVars, ret, exitPath, connectState, agentState,
                 agentCalls, closeAttempts, closeWarned, lastCall>>

\* await mcp_tools.connect() is entered
ConnectStart ==
  /\ pc = "connect"
  /\ connectState' = "pending"
  /\ pc' = "connect_wait"
  /\ UNCHANGED <<icsVars, uiVars, ret, exitPath, agentState, agentCalls,
                 closeAttempts, closeWarned, uiException, lastCall>>

ConnectEnd_SkipsFinally(raises, e) ==
  /\ pc = "connect_wait"
  /\ connectState' = "ended"
  /\ IF raises
     THEN /\ ret' = ErrorString(e)
          /\ exitPath' = "connect_failed"
          /\ pc' = "return"
     ELSE /\ pc' = "arun"
          /\ UNCHANGED <<ret, exitPath>>
  /\ UNCHANGED <<icsVars, uiVars, agentState, agentCalls, closeAttempts,
                 closeWarned, uiException, lastCall>>

\* connect() ends: with an exception (except clause, line 123) or normally
ConnectEnd(raises, e) ==
  /\ pc = "connect_wait"
  /\ connectState' = "ended"
  /\ IF raises
     THEN /\ ret' = ErrorString(e)
          /\ exitPath' = "connect_failed"
          /\ pc' = "finally"
     ELSE /\ pc' = "arun"
          /\ UNCHANGED <<ret, exitPath>>
  /\ UNCHANGED <<icsVars, uiVars, agentState, agentCalls, closeAttempts,
                 closeWarned, uiException, lastCall>>

\* await travel_planner.arun(prompt) is entered, line 110
ArunStart ==
  /\ pc = "arun"
  /\ agentState' = "pending"
  /\ agentCalls' = agentCalls + 1
  /\ pc' = "arun_wait"
  /\ UNCHANGED <<icsVars, uiVars, ret, exitPath, connectState, closeAttempts,
                 closeWarned, uiException, lastCall>>

\* arun ends: it raises (a tool timeout included), returns nothing, or
\* returns a response whose content is returned, lines 112-123
ArunEnd(outcome, c, e) ==
  /\ pc = "arun_wait"
  /\ agentState' = "ended"
  /\ CASE outcome = "raises" ->
            /\ ret' = ErrorString(e)
            /\ exitPath' = "agent_raised"
       [] outcome = "nothing" ->
            /\ ret' = NoResponse
            /\ exitPath' = "empty"
       [] outcome = "response" ->
            /\ ret' = c
            /\ exitPath' = "content"
  /\ pc' = "finally"
  /\ UNCHANGED <<icsVars, uiVars, connectState, agentCalls, closeAttempts,
                 closeWarned, uiException, lastCall>>

\* the agent's endpoint stops answering: line 110 awaits with no deadline of
\* its own (timeout_seconds=60 is an argument of MultiMCPTools, line 63)
AgentSilent ==
  /\ pc = "arun_wait"
  /\ pc' = "arun_hung"
  /\ UNCHANGED <<icsVars, uiVars, ret, exitPath, connectState, agentState,
                 agentCalls, closeAttempts, closeWarned, uiException, lastCall>>

\* the finally clause, lines 125-130: close() and, when it raises, a warning
Finally(closeRaises) ==
  /\ pc = "finally"
  /\ closeAttempts' = closeAttempts + 1
  /\ closeWarned' = closeRaises
  /\ pc' = "return"
  /\ UNCHANGED <<icsVars, uiVars, ret, exitPath, connectState, agentState,
                 agentCalls, uiException, lastCall>>

\* asyncio.run returns and line 173 stores the value in the session
Return ==
  /\ pc = "return"
  /\ itinerary' = ret
  /\ lastCall' = [started |-> TRUE, returned |-> TRUE, value |-> ret]
  /\ pc' = "col2"
  /\ UNCHANGED <<icsVars, ui_date, rendered, ret, exitPath, connectState,
                 agentState, agentCalls, closeAttempts, closeWarned, uiException>>

\* the rest of the script run, lines 183-198: the calendar for the download
\* button, then the itinerary; an exception of the converter ends the run
Col2Render ==
  /\ pc = "col2"
  /\ IF Truthy(itinerary)
     THEN /\ plan_text' = itinerary.text
          /\ start_date' = Combine(ui_date)
          /\ ics' = GenerateIcs(itinerary.text, Combine(ui_date))
          /\ rendered' = IF ics'.status = "ok" THEN itinerary ELSE None
     ELSE /\ rendered' = None
          /\ ics' = NotCalled
          /\ UNCHANGED <<plan_text, start_date>>
  /\ pc' = "idle"
  /\ UNCHANGED <<itinerary, ui_date, ret, exitPath, connectState, agentState,
                 agentCalls, closeAttempts, closeWarned, uiException, lastCall>>

Next ==
  \/ \E o \in BOOLEAN, d \in BOOLEAN : Generate(o, d)
  \/ \E d \in UiDates : ChangeStartDate(d)
  \/ \E r \in BOOLEAN : Create(r)
  \/ ConnectStart
  \/ \E r \in BOOLEAN, e \in Errors : ConnectEnd(r, e)
  \/ ArunStart
  \/ \E o \in {"raises", "nothing", "response"}, c \in Contents, e \in Errors :
       ArunEnd(o, c, e)
  \/ AgentSilent
  \/ \E r \in BOOLEAN : Finally(r)
  \/ Return
  \/ Col2Render

Spec == Init /\ [][Next]_vars

\* the steps of one planner call, from the constructor to the assignment
PlannerStep ==
  \/ \E r \in BOOLEAN : Create(r)
  \/ ConnectStart
  \/ \E r \in BOOLEAN, e \in Errors : ConnectEnd(r, e)
  \/ ArunStart
  \/ \E o \in {"raises", "nothing", "response"}, c \in Contents, e \in Errors :
       ArunEnd(o, c, e)
  \/ AgentSilent
  \/ \E r \in BOOLEAN : Finally(r)
  \/ Return

\* a planner call that can take a step takes one: the event loop runs the
\* coroutine whenever an awaited call has ended.  Once the agent has gone
\* silent no step is enabled, and the code has none to take.
FairSpec == Spec /\ WF_vars(PlannerStep)

----------------------------------------------------------------------------
(* The day markers of a text, read off the text position by position,      *)
(* without the matcher: "Day ", one or more digits, then a colon or        *)
(* whitespace.                                                             *)

\* the digits of a marker-like string at p end before position d
DigitRun(s, p, d) ==
  /\ d > p + 4
  /\ d <= Len(s) + 1
  /\ \A j \in (p + 4)..(d - 1) : IsDigit(s[j])
  /\ d = Len(s) + 1 \/ ~IsDigit(s[d])

IsMarkerAt(s, p) ==
  /\ StartsWith(s, p, DayLit)
  /\ \E d \in (p + 5)..Len(s) : DigitRun(s, p, d) /\ IsSep(s[d])

MarkerPositions(s) == {p \in 1..Len(s) : IsMarkerAt(s, p)}

\* the i-th marker in text order
NthMarker(s, i) ==
  CHOOSE p \in MarkerPositions(s) :
    Cardinality({q \in MarkerPositions(s) : q < p}) = i - 1

MarkerDigitsEnd(s, p) == CHOOSE d \in (p + 5)..(Len(s) + 1) : DigitRun(s, p, d)

\* the first position after the marker's colons and whitespace
AfterMarker(s, p) ==
  CHOOSE a \in (p + 6)..(Len(s) + 1) :
    /\ \A j \in MarkerDigitsEnd(s, p)..(a - 1) : IsSep(s[j])
    /\ a = Len(s) + 1 \/ ~IsSep(s[a])

RECURSIVE Pow10(_)
Pow10(k) == IF k = 0 THEN 1 ELSE 10 * Pow10(k - 1)

RECURSIVE DecimalValue(_, _, _)
DecimalValue(s, from, to) ==
  IF from > to THEN 0
  ELSE DigitVal(s[from]) * Pow10(to - from) + DecimalValue(s, from + 1, to)

\* the day number written in the marker at p
MarkerNumber(s, p) == DecimalValue(s, p + 4, MarkerDigitsEnd(s, p) - 1)

\* where the marker after the i-th one starts, or the end of the text
NextMarkerOrEnd(s, i) ==
  IF i < Cardinality(MarkerPositions(s)) THEN NthMarker(s, i + 1) ELSE Len(s) + 1

\* "Day ", a minus sign, digits, then a colon or whitespace
IsNegativeMarkerAt(s, p) ==
  /\ StartsWith(s, p, DayLit \o <<"-">>)
  /\ \E d \in (p + 6)..Len(s) :
       /\ \A j \in (p + 5)..(d - 1) : IsDigit(s[j])
       /\ IsSep(s[d])

NegativeMarkerValue(s, p) ==
  LET d == CHOOSE d \in (p + 6)..Len(s) :
             /\ \A j \in (p + 5)..(d - 1) : IsDigit(s[j])
             /\ IsSep(s[d])
  IN 0 - DecimalValue(s, p + 5, d - 1)

\* the start date the call works with
BaseDate == IF start_date = NoDate THEN Today ELSE start_date

Called == ics.status # "none"

----------------------------------------------------------------------------
(* Claims about generate_ics_content, checked under IcsSpec. *)

\* C1: a text in which the day-marker pattern matches nowhere (the empty
\* text included) gives exactly one event, with summary "Travel Itinerary",
\* the whole untrimmed text as description, and start and end equal to the
\* date component of the start date.
C1_NoMarkerSingleEvent ==
  (Called /\ MarkerPositions(plan_text) = {}) =>
    /\ ics.status = "ok"
    /\ ics.events =
         << [summary |-> TravelItinerary, description |-> plan_text,
             dtstart |-> BaseDate.day, dtend |-> BaseDate.day] >>

C1_Witness ==
  /\ ics.status = "ok"
  /\ MarkerPositions(plan_text) = {}
  /\ Len(plan_text) > 2
  /\ IsSpace(plan_text[1])
  /\ IsSpace(plan_text[Len(plan_text)])
  /\ start_date.sec # 0
  /\ Len(ics.events) = 1
  /\ ics.events[1].description = plan_text

\* C2: a text with N >= 1 matched markers gives exactly N events, the i-th
\* for the i-th marker in text order, with summary "Day k Itinerary" and
\* start = end = start date + (k - 1) days, k the i-th marker's number.
C2_OneEventPerMarker ==
  LET n == Cardinality(MarkerPositions(plan_text))
  IN (Called /\ n >= 1) =>
       /\ ics.status = "ok"
       /\ Len(ics.events) = n
       /\ \A i \in 1..n :
            LET k == MarkerNumber(plan_text, NthMarker(plan_text, i))
            IN /\ ics.events[i].summary = DayLit \o IntToStr(k) \o ItinerarySuffix
               /\ ics.events[i].dtstart = BaseDate.day + k - 1
               /\ ics.events[i].dtend = BaseDate.day + k - 1

\* C3: each event's description is the text from the end of its marker to
\* the start of the next matched marker (or the end of the input), trimmed;
\* a marker-like string that is no match does not end the segment.
C3_DescriptionUpToNextMarker ==
  LET n == Cardinality(MarkerPositions(plan_text))
  IN (ics.status = "ok" /\ n >= 1) =>
       /\ Len(ics.events) = n
       /\ \A i \in 1..n :
            ics.events[i].description =
              Strip(SubSeq(plan_text,
                           AfterMarker(plan_text, NthMarker(plan_text, i)),
                           NextMarkerOrEnd(plan_text, i) - 1))

\* C4: a marker numbered 1 gives an event dated the start date; a marker
\* numbered 0 or negative is accepted and gives an event dated before the
\* start date, unclamped and without an error.
C4_DayOneZeroNegative ==
  Called =>
    /\ \A p \in MarkerPositions(plan_text) :
         MarkerNumber(plan_text, p) <= 1 =>
           /\ ics.status = "ok"
           /\ \E i \in 1..Len(ics.events) :
                /\ ics.events[i].dtstart = BaseDate.day + MarkerNumber(plan_text, p) - 1
                /\ ics.events[i].dtend = ics.events[i].dtstart
    /\ \A p \in 1..Len(plan_text) :
         IsNegativeMarkerAt(plan_text, p) =>
           /\ ics.status = "ok"
           /\ \E i \in 1..Len(ics.events) :
                /\ ics.events[i].dtstart =
                     BaseDate.day + NegativeMarkerValue(plan_text, p) - 1
                /\ ics.events[i].dtend = ics.events[i].dtstart

\* C5: the call never ends in an error, whatever the text and the start
\* date: every marker gets a dated event, however large its number.
C5_NeverRaises ==
  Called =>
    /\ ics.status = "ok"
    /\ Len(ics.events) >= 1
    /\ Len(ics.events) >= Cardinality(MarkerPositions(plan_text))

\* C10: when a marker matches, every description is the trimmed text of a
\* span that starts right after a matched marker, so the text before the
\* first marker is in no event.
C10_PreambleInNoEvent ==
  (ics.status = "ok" /\ MarkerPositions(plan_text) # {}) =>
    \A i \in 1..Len(ics.events) :
      \E p \in MarkerPositions(plan_text) :
        \E b \in p..Len(plan_text) :
          ics.events[i].description =
            Strip(SubSeq(plan_text, AfterMarker(plan_text, p), b))

C10_Witness ==
  /\ ics.status = "ok"
  /\ MarkerPositions(plan_text) # {}
  /\ \A p \in MarkerPositions(plan_text) : p > 1
  /\ plan_text[1] = "x"
  /\ Len(ics.events) >= 2
  /\ ics.events[1].description # <<>>

----------------------------------------------------------------------------
(* Claims about run_mcp_travel_planner and the script, checked under Spec  *)
(* and FairSpec.                                                           *)

\* C6: in every run the tool connections are closed exactly once, and only
\* after the connect attempt and any agent call have ended, on every exit
\* path: a response, an empty response, a failed connect, an agent call
\* that raised or timed out.
C6_ClosedOnceAfterCalls ==
  /\ closeAttempts <= 1
  /\ closeAttempts = 1 =>
       /\ connectState = "ended"
       /\ agentState # "pending"
       /\ exitPath # "none"
  /\ pc = "finally" => closeAttempts = 0
  /\ (exitPath # "none" /\ pc # "finally") => closeAttempts = 1
  /\ pc = "return" =>
       exitPath \in {"content", "empty", "connect_failed", "agent_raised"}

C6_Witness ==
  /\ pc = "return"
  /\ exitPath = "agent_raised"
  /\ agentState = "ended"
  /\ closeAttempts = 1

\* C7: no failure of creating or connecting the tool connections, of the
\* agent call or of close reaches the script as an exception: connect and
\* agent failures return an error string, a close failure is only warned
\* about and leaves the return value as chosen.
C7_NoExceptionReachesUi ==
  /\ ~uiException
  /\ (pc = "return" /\ exitPath \in {"connect_failed", "agent_raised"}) =>
       \E e \in Errors : ret = ErrorString(e)

\* C8: every planner call eventually returns to the script.
C8_CallReturns ==
  (pc = "create") ~> (pc \in {"col2", "idle"})

\* C9: when the script is at rest after a planner call was started, the
\* stored itinerary is the return value of the most recent such call.
C9_ItineraryIsLastReturn ==
  (pc = "idle" /\ lastCall.started) =>
    /\ lastCall.returned
    /\ itinerary = lastCall.value

----------------------------------------------------------------------------
(* The converter on its own: every text and start date of the input sets. *)

IcsInit ==
  /\ plan_text \in Texts
  /\ start_date \in StartDates
  /\ ics = NotCalled
  /\ ScriptStart

\* the call generate_ics_content(plan_text, start_date)
Convert ==
  /\ ics = NotCalled
  /\ ics' = GenerateIcs(plan_text, start_date)
  /\ UNCHANGED <<plan_text, start_date, uiVars, callVars>>

IcsNext == Convert

IcsSpec == IcsInit /\ [][IcsNext]_vars

====
